---- MODULE Spec2Model ----
(***************************************************************************)
(* A model of DeckAnalyzer (src/analysis/flexible_poker_analysis_fixed.py):*)
(* exact counts of poker-hand categories for a deck of num_ranks ranks,    *)
(* num_suits suits and num_copies copies of each card, for any hand size.  *)
(*                                                                         *)
(* The state is the heap of constructed analyzers, the memo table that     *)
(* functools.cache keeps for generate_partitions, and the record of the    *)
(* last call with the value it returned.  Each public method is an action; *)
(* the arithmetic of each method is an operator written as the code        *)
(* computes it.                                                            *)
(***************************************************************************)
EXTENDS Integers, Sequences, FiniteSets, TLC

VARIABLES analyzers, cache, last

vars == <<analyzers, cache, last>>

(***************************************************************************)
(* Bounds of the model.                                                    *)
(***************************************************************************)
MaxRanks == 6
MaxSuits == 3
MaxCopies == 2
\* cards of the largest deck an analyzer is constructed for
MaxCards == 10
\* how far hand_size may exceed total_cards at construction
MaxExcess == 1
\* cards of the largest deck in the specification with twin analyzers
PairMaxCards == 8
\* the partitions handed to count_ways_for_partition: at most MaxParts parts,
\* each at most MaxPart
MaxParts == 3
MaxPart == 3
\* the largest n, max_val and max_len handed to generate_partitions
MaxArg == 4
\* cards of the largest deck in the specification with two analyzers of
\* different shapes
MixMaxCards == 2
\* the largest n, and the most negative n and k, of a call of C on its own
MaxChoose == 12
MaxNegative == 2

(***************************************************************************)
(* Arithmetic helpers (Python builtins).                                   *)
(***************************************************************************)
Min(a, b) == IF a < b THEN a ELSE b

RECURSIVE Pow(_, _)
Pow(b, e) == IF e <= 0 THEN 1 ELSE b * Pow(b, e - 1)

RECURSIVE SumSeq(_)
SumSeq(s) == IF s = << >> THEN 0 ELSE Head(s) + SumSeq(Tail(s))

\* math.factorial.  For n < 0 Python raises ValueError: the raise is what
\* CRaises reports, and the value given here for n < 0 is never used by the
\* code as written (C's guard returns first).
RECURSIVE factorial(_)
factorial(n) == IF n <= 1 THEN 1 ELSE n * factorial(n - 1)

(***************************************************************************)
(* DeckAnalyzer.__init__: the fields of a new analyzer.  It has no check   *)
(* of any argument and no raise.                                           *)
(***************************************************************************)
\* a constructor that takes the suits for the copies in cards_per_suit
DeckAnalyzer_suits_per_suit(num_ranks, num_suits, num_copies, hand_size) ==
    [num_ranks |-> num_ranks, num_suits |-> num_suits,
     num_copies |-> num_copies, hand_size |-> hand_size,
     cards_per_rank |-> num_suits * num_copies,
     cards_per_suit |-> num_ranks * num_suits,
     total_cards |-> num_ranks * num_suits * num_copies]

DeckAnalyzer(num_ranks, num_suits, num_copies, hand_size) ==
    [num_ranks |-> num_ranks, num_suits |-> num_suits,
     num_copies |-> num_copies, hand_size |-> hand_size,
     cards_per_rank |-> num_suits * num_copies,
     cards_per_suit |-> num_ranks * num_copies,
     total_cards |-> num_ranks * num_suits * num_copies]

(***************************************************************************)
(* DeckAnalyzer.C: n choose k.                                             *)
(***************************************************************************)
\* a guard that forgets k > n
CGuardNoUpper(n, k) == k < 0

\* the early return of C
CGuard(n, k) == k > n \/ k < 0

\* C raises (ValueError from math.factorial) when it gets past its guard with
\* a negative argument to one of its three factorials
CRaises(n, k) == ~CGuard(n, k) /\ (n < 0 \/ k < 0 \/ n - k < 0)

\* n! / (k! (n - k)!) for 0 <= k <= n with the division done one factor at a
\* time.  Python's integers are unbounded; from 13! on the factorials are
\* beyond 32-bit integers, and there the same quotient is computed this
\* way.
RECURSIVE factorial_quotient(_, _)
factorial_quotient(n, k) ==
    IF k = 0 THEN 1 ELSE (factorial_quotient(n - 1, k - 1) * n) \div k

\* the ordered selections: n! / (n - k)!, the division by k! left out
C_ordered(n, k) ==
    IF CGuard(n, k) THEN 0 ELSE factorial(n) \div factorial(n - k)

C(n, k) ==
    IF CGuard(n, k) THEN 0
    ELSE IF n <= 12 THEN factorial(n) \div (factorial(k) * factorial(n - k))
    ELSE factorial_quotient(n, k)

(***************************************************************************)
(* generate_partitions and its memo table.                                 *)
(***************************************************************************)
RECURSIVE partition_helper(_, _, _)
RECURSIVE partition_loop(_, _, _)

\* a loop whose recursive call restarts from the whole remainder instead of
\* from value: the parts come in any order
RECURSIVE partition_loop_any_order(_, _, _)
partition_loop_any_order(target, value, max_length) ==
    IF value < 1 THEN << >>
    ELSE LET sub == partition_helper(target - value, target - value,
                                     max_length - 1)
         IN  [j \in 1..Len(sub) |-> <<value>> \o sub[j]]
             \o partition_loop_any_order(target, value - 1, max_length)

\* the for loop of partition_helper, from value down to 1
partition_loop(target, value, max_length) ==
    IF value < 1 THEN << >>
    ELSE LET sub == partition_helper(target - value, value, max_length - 1)
         IN  [j \in 1..Len(sub) |-> <<value>> \o sub[j]]
             \o partition_loop(target, value - 1, max_length)

partition_helper(target, max_value, max_length) ==
    IF target = 0 THEN << << >> >>
    ELSE IF max_length = 0 THEN << >>
    ELSE partition_loop(target, Min(target, max_value), max_length)

\* generate_partitions(n) with max_val and max_len left to their defaults,
\* as every caller calls it: the body, run on a cache miss
generate_partitions_body(self, n) ==
    partition_helper(n, Min(n, self.cards_per_rank), Min(n, self.num_ranks))

\* a key that leaves self out: all analyzers share the entry of n, filed
\* under the first of them
CacheKeyShared(i, n) == <<1, n>>

\* functools.cache keys an entry by the call's arguments: (self, n); self is
\* hashed by identity, the analyzer's place in the heap
CacheKey(i, n) == <<i, n>>

\* an exhausted iterator kept in place of the list
CachedResultExhausted(result) == << >>

\* what functools.cache keeps for a key: the object the body returned
CachedResult(result) == result

\* the call self.generate_partitions(n) on analyzer i, in the current state
generate_partitions(i, n) ==
    IF CacheKey(i, n) \in DOMAIN cache
    THEN cache[CacheKey(i, n)]
    ELSE generate_partitions_body(analyzers[i], n)

\* the memo table after that call
CacheAfter(i, n) ==
    IF CacheKey(i, n) \in DOMAIN cache
    THEN cache
    ELSE cache @@ (CacheKey(i, n) :>
                     CachedResult(generate_partitions_body(analyzers[i], n)))

(***************************************************************************)
(* count_ways_for_partition.                                               *)
(***************************************************************************)
\* Counter(partition)[value]
value_counts(partition, value) ==
    Cardinality({j \in 1..Len(partition) : partition[j] = value})

PartValues(partition) == {partition[j] : j \in 1..Len(partition)}

SetMax(S) == CHOOSE x \in S : \A y \in S : y <= x

\* the loop without remaining_ranks -= count: every group of ranks is chosen
\* from all the ranks
RECURSIVE ways_loop_keep_ranks(_, _, _, _)
ways_loop_keep_ranks(self, partition, values, remaining_ranks) ==
    IF values = {} THEN 1
    ELSE LET value == SetMax(values)
             count == value_counts(partition, value)
         IN  IF value = 0
             THEN ways_loop_keep_ranks(self, partition, values \ {value},
                                       remaining_ranks)
             ELSE C(remaining_ranks, count)
                  * Pow(C(self.cards_per_rank, value), count)
                  * ways_loop_keep_ranks(self, partition, values \ {value},
                                         remaining_ranks)

\* the loop over sorted(value_counts.items(), reverse=True)
RECURSIVE ways_loop(_, _, _, _)
ways_loop(self, partition, values, remaining_ranks) ==
    IF values = {} THEN 1
    ELSE LET value == SetMax(values)
             count == value_counts(partition, value)
         IN  IF value = 0
             THEN ways_loop(self, partition, values \ {value}, remaining_ranks)
             ELSE C(remaining_ranks, count)
                  * Pow(C(self.cards_per_rank, value), count)
                  * ways_loop(self, partition, values \ {value},
                              remaining_ranks - count)

\* choosing the ranks one at a time: the permutations of ranks that share a
\* value are counted
RECURSIVE ways_one_at_a_time(_, _, _)
ways_one_at_a_time(self, partition, remaining_ranks) ==
    IF partition = << >> THEN 1
    ELSE C(remaining_ranks, 1) * C(self.cards_per_rank, Head(partition))
         * ways_one_at_a_time(self, Tail(partition), remaining_ranks - 1)

count_ways_naive(self, partition) ==
    ways_one_at_a_time(self, partition, self.num_ranks)

count_ways_for_partition(self, partition) ==
    IF Len(partition) > self.num_ranks THEN 0
    ELSE IF \E j \in 1..Len(partition) : partition[j] > self.cards_per_rank
    THEN 0
    ELSE ways_loop(self, partition, PartValues(partition), self.num_ranks)

\* the (n, k) of every call of C that count_ways_for_partition makes
RECURSIVE ways_C_calls(_, _, _, _)
ways_C_calls(self, partition, values, remaining_ranks) ==
    IF values = {} THEN {}
    ELSE LET value == SetMax(values)
             count == value_counts(partition, value)
         IN  IF value = 0
             THEN ways_C_calls(self, partition, values \ {value}, remaining_ranks)
             ELSE {<<remaining_ranks, count>>, <<self.cards_per_rank, value>>}
                  \cup ways_C_calls(self, partition, values \ {value},
                                    remaining_ranks - count)

count_ways_C_calls(self, partition) ==
    IF Len(partition) > self.num_ranks THEN {}
    ELSE IF \E j \in 1..Len(partition) : partition[j] > self.cards_per_rank
    THEN {}
    ELSE ways_C_calls(self, partition, PartValues(partition), self.num_ranks)

(***************************************************************************)
(* The predicates the counters evaluate on a partition.                    *)
(***************************************************************************)
has_pair(partition) == \E j \in 1..Len(partition) : partition[j] >= 2

has_two_pair(partition) ==
    Cardinality({j \in 1..Len(partition) : partition[j] >= 2}) >= 2

has_3oak(partition) == \E j \in 1..Len(partition) : partition[j] >= 3

has_4oak(partition) == \E j \in 1..Len(partition) : partition[j] >= 4

has_5oak(partition) == \E j \in 1..Len(partition) : partition[j] >= 5

has_full_house(partition) == has_3oak(partition) /\ has_two_pair(partition)

\* a pair test that looks for a rank with exactly two cards
pairs_counted_exactly_two(partition, exclusive) ==
    IF exclusive
    THEN has_pair(partition) /\ ~has_two_pair(partition) /\ ~has_3oak(partition)
    ELSE \E j \in 1..Len(partition) : partition[j] = 2

\* a pair test that wants a second rank in the hand beside the pair
pairs_counted_needs_kicker(partition, exclusive) ==
    IF exclusive
    THEN has_pair(partition) /\ ~has_two_pair(partition) /\ ~has_3oak(partition)
    ELSE has_pair(partition) /\ Len(partition) >= 2

\* the test count_pairs applies to a partition
pairs_counted(partition, exclusive) ==
    IF exclusive
    THEN has_pair(partition) /\ ~has_two_pair(partition) /\ ~has_3oak(partition)
    ELSE has_pair(partition)

\* an exclusive test copied from count_pairs: has_pair where has_two_pair
\* belongs
two_pair_counted_from_pair(partition, exclusive) ==
    IF exclusive
    THEN has_pair(partition) /\ ~has_full_house(partition)
    ELSE has_two_pair(partition)

\* an exclusive test that also leaves out three pairs or more
two_pair_counted_exactly_two(partition, exclusive) ==
    IF exclusive
    THEN /\ has_two_pair(partition)
         /\ ~has_full_house(partition)
         /\ Cardinality({j \in 1..Len(partition) : partition[j] >= 2}) = 2
    ELSE has_two_pair(partition)

two_pair_counted(partition, exclusive) ==
    IF exclusive
    THEN has_two_pair(partition) /\ ~has_full_house(partition)
    ELSE has_two_pair(partition)

\* an exclusive three-of-a-kind test that keeps the full houses
three_of_kind_counted_with_full_house(partition, exclusive) ==
    IF exclusive
    THEN has_3oak(partition) /\ ~has_4oak(partition)
    ELSE has_3oak(partition)

three_of_kind_counted(partition, exclusive) ==
    IF exclusive
    THEN has_3oak(partition) /\ ~has_4oak(partition) /\ ~has_full_house(partition)
    ELSE has_3oak(partition)

\* a full-house test that in exclusive mode leaves four of a kind out
full_house_counted_without_4oak(partition, exclusive) ==
    IF exclusive
    THEN has_3oak(partition) /\ has_two_pair(partition) /\ ~has_4oak(partition)
    ELSE has_3oak(partition) /\ has_two_pair(partition)

full_house_counted(partition, exclusive) ==
    has_3oak(partition) /\ has_two_pair(partition)

four_of_kind_counted(partition, exclusive) ==
    IF exclusive
    THEN has_4oak(partition) /\ ~has_5oak(partition)
    ELSE has_4oak(partition)

\* a test for 4 cards of a rank where 5 are asked for
five_of_kind_counted_from_four(partition, exclusive) == has_4oak(partition)

five_of_kind_counted(partition, exclusive) == has_5oak(partition)

\* the early return 0 of each partition counter, before generate_partitions
pairs_guard(self) == FALSE

two_pair_guard(self) == self.hand_size < 4

three_of_kind_guard(self) == self.hand_size < 3

full_house_guard(self) == self.num_ranks < 2 \/ self.hand_size < 5

four_of_kind_guard(self) == self.hand_size < 4 \/ self.cards_per_rank < 4

five_of_kind_guard(self) == self.cards_per_rank < 5 \/ self.hand_size < 5

PartitionOps ==
    {"count_pairs", "count_two_pair", "count_three_of_kind",
     "count_full_house", "count_four_of_kind", "count_five_of_kind"}

partition_guard(op, self) ==
    CASE op = "count_pairs" -> pairs_guard(self)
      [] op = "count_two_pair" -> two_pair_guard(self)
      [] op = "count_three_of_kind" -> three_of_kind_guard(self)
      [] op = "count_full_house" -> full_house_guard(self)
      [] op = "count_four_of_kind" -> four_of_kind_guard(self)
      [] op = "count_five_of_kind" -> five_of_kind_guard(self)

partition_counted(op, partition, exclusive) ==
    CASE op = "count_pairs" -> pairs_counted(partition, exclusive)
      [] op = "count_two_pair" -> two_pair_counted(partition, exclusive)
      [] op = "count_three_of_kind" -> three_of_kind_counted(partition, exclusive)
      [] op = "count_full_house" -> full_house_counted(partition, exclusive)
      [] op = "count_four_of_kind" -> four_of_kind_counted(partition, exclusive)
      [] op = "count_five_of_kind" -> five_of_kind_counted(partition, exclusive)

\* the loop shared by the six partition counters: count += ways for each
\* partition the counter's test accepts
sum_counted(op, self, partitions, exclusive) ==
    SumSeq([j \in 1..Len(partitions) |->
              IF partition_counted(op, partitions[j], exclusive)
              THEN count_ways_for_partition(self, partitions[j])
              ELSE 0])

\* a partition counter on analyzer i, in the current state
count_by_partitions(op, i, exclusive) ==
    LET self == analyzers[i]
    IN  IF partition_guard(op, self) THEN 0
        ELSE sum_counted(op, self,
                         generate_partitions(i, self.hand_size), exclusive)

\* the (n, k) of every call of C a partition counter makes
partition_C_calls(op, i, exclusive) ==
    LET self == analyzers[i]
        partitions == generate_partitions(i, self.hand_size)
    IN  IF partition_guard(op, self) THEN {}
        ELSE UNION {IF partition_counted(op, partitions[j], exclusive)
                    THEN count_ways_C_calls(self, partitions[j])
                    ELSE {} : j \in 1..Len(partitions)}

count_pairs(i, exclusive) == count_by_partitions("count_pairs", i, exclusive)

count_two_pair(i, exclusive) ==
    count_by_partitions("count_two_pair", i, exclusive)

count_three_of_kind(i, exclusive) ==
    count_by_partitions("count_three_of_kind", i, exclusive)

count_full_house(i, exclusive) ==
    count_by_partitions("count_full_house", i, exclusive)

count_four_of_kind(i, exclusive) ==
    count_by_partitions("count_four_of_kind", i, exclusive)

count_five_of_kind(i, exclusive) ==
    count_by_partitions("count_five_of_kind", i, exclusive)

\* count_total_hands
count_total_hands(i) ==
    C(analyzers[i].total_cards, analyzers[i].hand_size)

(***************************************************************************)
(* count_straights, count_flushes, count_straight_flushes.                 *)
(***************************************************************************)
\* (-1) ** k
sign(k) == IF k % 2 = 0 THEN 1 ELSE -1

\* the inclusion-exclusion of count_straights over the 5 ranks of a straight:
\* the hands drawn from total_allowed_cards cards that miss none of them
count_with_all_ranks(self, total_allowed_cards) ==
    C(total_allowed_cards, self.hand_size)
    + SumSeq([k \in 1..5 |->
        LET cards_without_k_ranks ==
                total_allowed_cards - k * self.cards_per_rank
        IN  IF cards_without_k_ranks >= self.hand_size
            THEN sign(k) * C(5, k) * C(cards_without_k_ranks, self.hand_size)
            ELSE 0])

with_all_ranks_C_calls(self, total_allowed_cards) ==
    {<<total_allowed_cards, self.hand_size>>}
    \cup UNION {LET cards_without_k_ranks ==
                        total_allowed_cards - k * self.cards_per_rank
                IN  IF cards_without_k_ranks >= self.hand_size
                    THEN {<<5, k>>, <<cards_without_k_ranks, self.hand_size>>}
                    ELSE {} : k \in 1..5}

\* the runs of five consecutive ranks alone, no ace-low run
num_straight_types_no_ace_low(self) == self.num_ranks - 4

\* num_straight_types, "assumes ace can be low"
num_straight_types(self) == self.num_ranks - 3

\* an early return that asks for the 13 ranks of the standard deck
straight_flushes_guard_standard_span(self) ==
    self.num_ranks < 13 \/ self.cards_per_suit < 5 \/ self.hand_size < 5

straight_flushes_guard(self) ==
    self.num_ranks < 5 \/ self.cards_per_suit < 5 \/ self.hand_size < 5

\* a straight type counted with no card left out of the rest of the hand
straight_flush_ways_no_exclusion(self, excluded_cards) ==
    LET remaining_cards == self.hand_size - 5
        available_cards == self.total_cards - 5 * self.num_copies
    IN  IF available_cards >= remaining_cards
        THEN Pow(self.num_copies, 5) * C(available_cards, remaining_cards)
        ELSE 0

\* the rest of the hand drawn from a deck that still holds the 5 cards of
\* the straight flush
straight_flush_ways_straight_cards_kept(self, excluded_cards) ==
    LET remaining_cards == self.hand_size - 5
        available_cards == self.total_cards - excluded_cards
    IN  IF available_cards >= remaining_cards
        THEN Pow(self.num_copies, 5) * C(available_cards, remaining_cards)
        ELSE 0

\* one straight type of count_straight_flushes for a hand of more than 5
\* cards: the 5 cards of the straight flush times the ways to draw the rest,
\* with excluded_cards cards left out
straight_flush_ways(self, excluded_cards) ==
    LET remaining_cards == self.hand_size - 5
        available_cards ==
            self.total_cards - 5 * self.num_copies - excluded_cards
    IN  IF available_cards >= remaining_cards
        THEN Pow(self.num_copies, 5) * C(available_cards, remaining_cards)
        ELSE 0

straight_flush_C_calls(self, excluded_cards) ==
    LET remaining_cards == self.hand_size - 5
        available_cards ==
            self.total_cards - 5 * self.num_copies - excluded_cards
    IN  IF available_cards >= remaining_cards
        THEN {<<available_cards, remaining_cards>>}
        ELSE {}

\* the 5-card product taken over all the cards of a rank instead of the
\* copies of one suit
count_straight_flushes_any_suit(self) ==
    IF straight_flushes_guard(self) THEN 0
    ELSE IF self.hand_size - 5 = 0
    THEN self.num_suits * num_straight_types(self)
         * Pow(self.cards_per_rank, 5)
    ELSE LET num_middle_straights == num_straight_types(self) - 2
         IN  (straight_flush_ways(self, self.num_copies)
              + SumSeq([straight_idx \in 1..num_middle_straights |->
                          straight_flush_ways(self, self.num_copies)])
              + straight_flush_ways(self, 0)) * self.num_suits

count_straight_flushes_of(self) ==
    IF straight_flushes_guard(self) THEN 0
    ELSE IF self.hand_size - 5 = 0
    THEN self.num_suits * num_straight_types(self) * Pow(self.num_copies, 5)
    ELSE LET num_middle_straights == num_straight_types(self) - 2
             total ==
                 \* ace-low
                 straight_flush_ways(self, self.num_copies)
                 \* middle straights
                 + SumSeq([straight_idx \in 1..num_middle_straights |->
                             straight_flush_ways(self, self.num_copies)])
                 \* ace-high
                 + straight_flush_ways(self, 0)
         IN  total * self.num_suits

straight_flushes_C_calls(self) ==
    IF straight_flushes_guard(self) \/ self.hand_size - 5 = 0 THEN {}
    ELSE straight_flush_C_calls(self, self.num_copies)
         \cup straight_flush_C_calls(self, 0)

count_straight_flushes(i, exclusive) == count_straight_flushes_of(analyzers[i])

\* an early return that looks at the hand size alone
straights_guard_hand_only(self) == self.hand_size < 5

straights_guard(self) == self.num_ranks < 5 \/ self.hand_size < 5

\* count_straights before the exclusive subtraction
straights_total(self) ==
    IF self.hand_size - 5 = 0
    THEN num_straight_types(self) * Pow(self.cards_per_rank, 5)
    ELSE \* the straights that can be extended upward: the next rank excluded
         SumSeq([straight_idx \in 1..(num_straight_types(self) - 1) |->
                   count_with_all_ranks(self,
                       (5 + (self.num_ranks - 5 - 1)) * self.cards_per_rank)])
         \* the ace-high straight: any rank allowed
         + count_with_all_ranks(self, self.total_cards)

\* a count_straights whose 5-card branch returns before the exclusive test
count_straights_no_subtraction_at_5(self, exclusive) ==
    IF straights_guard(self) THEN 0
    ELSE IF self.hand_size - 5 = 0 THEN straights_total(self)
    ELSE straights_total(self)
         - (IF exclusive THEN count_straight_flushes_of(self) ELSE 0)

count_straights_of(self, exclusive) ==
    IF straights_guard(self) THEN 0
    ELSE straights_total(self)
         - (IF exclusive THEN count_straight_flushes_of(self) ELSE 0)

straights_C_calls(self, exclusive) ==
    IF straights_guard(self) THEN {}
    ELSE (IF self.hand_size - 5 = 0 THEN {}
          ELSE (IF num_straight_types(self) - 1 >= 1
                THEN with_all_ranks_C_calls(self,
                         (5 + (self.num_ranks - 5 - 1)) * self.cards_per_rank)
                ELSE {})
               \cup with_all_ranks_C_calls(self, self.total_cards))
         \cup (IF exclusive THEN straight_flushes_C_calls(self) ELSE {})

count_straights(i, exclusive) == count_straights_of(analyzers[i], exclusive)

flushes_guard(self) == self.cards_per_suit < 5 \/ self.hand_size < 5

\* the ways with exactly num_from_suit cards of one suit
flush_ways(self, num_from_suit) ==
    LET remaining == self.hand_size - num_from_suit
    IN  C(self.cards_per_suit, num_from_suit)
        * (IF remaining > 0
           THEN C((self.num_suits - 1) * self.cards_per_suit, remaining)
           ELSE 1)

\* count_flushes before the exclusive subtraction
flushes_total(self) ==
    LET max_from_suit == Min(self.hand_size, self.cards_per_suit)
    IN  SumSeq([suit \in 1..self.num_suits |->
          SumSeq([n \in 1..(max_from_suit - 4) |-> flush_ways(self, n + 4)])])

count_flushes_of(self, exclusive) ==
    IF flushes_guard(self) THEN 0
    ELSE flushes_total(self)
         - (IF exclusive THEN count_straight_flushes_of(self) ELSE 0)

flushes_C_calls(self, exclusive) ==
    IF flushes_guard(self) THEN {}
    ELSE UNION {LET remaining == self.hand_size - num_from_suit
                IN  {<<self.cards_per_suit, num_from_suit>>}
                    \cup (IF remaining > 0
                          THEN {<<(self.num_suits - 1) * self.cards_per_suit,
                                  remaining>>}
                          ELSE {})
                : num_from_suit \in 5..Min(self.hand_size, self.cards_per_suit)}
         \cup (IF exclusive THEN straight_flushes_C_calls(self) ELSE {})

count_flushes(i, exclusive) == count_flushes_of(analyzers[i], exclusive)

(***************************************************************************)
(* analyze_hands.                                                          *)
(***************************************************************************)
\* count / total_hands without the test of total_hands
probability_unguarded(count, total_hands) == <<count, total_hands>>

\* count / total_hands if total_hands > 0 else 0, as a fraction <<num, den>>
probability(count, total_hands) ==
    IF total_hands > 0 THEN <<count, total_hands>> ELSE <<0, 1>>

\* the division raises ZeroDivisionError when it is reached with total_hands 0
probability_raises(count, total_hands) ==
    IF total_hands > 0 THEN total_hands = 0 ELSE FALSE

\* hand_counts, in the order of the list
hand_counts(i) ==
    << [name |-> "At least one pair", count |-> count_pairs(i, FALSE)],
       [name |-> "At least two pair", count |-> count_two_pair(i, FALSE)],
       [name |-> "At least 3 of a kind", count |-> count_three_of_kind(i, FALSE)],
       [name |-> "Full house", count |-> count_full_house(i, FALSE)],
       [name |-> "Straight", count |-> count_straights(i, FALSE)],
       [name |-> "Flush", count |-> count_flushes(i, FALSE)],
       [name |-> "At least 4 of a kind", count |-> count_four_of_kind(i, FALSE)],
       [name |-> "Straight flush", count |-> count_straight_flushes(i, FALSE)],
       [name |-> "5 of a kind", count |-> count_five_of_kind(i, FALSE)] >>

analyze_hands(i) ==
    LET total_hands == count_total_hands(i)
        counts == hand_counts(i)
    IN  [j \in 1..Len(counts) |->
           [name |-> counts[j].name, count |-> counts[j].count,
            prob |-> probability(counts[j].count, total_hands)]]

(***************************************************************************)
(* Which calls raise: a call raises when one of the calls of C it makes    *)
(* raises (or, in analyze_hands, the division does).                       *)
(***************************************************************************)
CounterOps ==
    PartitionOps \cup {"count_straights", "count_flushes", "count_straight_flushes"}

C_calls(op, i, exclusive) ==
    CASE op \in PartitionOps -> partition_C_calls(op, i, exclusive)
      [] op = "count_straights" -> straights_C_calls(analyzers[i], exclusive)
      [] op = "count_flushes" -> flushes_C_calls(analyzers[i], exclusive)
      [] op = "count_straight_flushes" -> straight_flushes_C_calls(analyzers[i])
      [] op = "count_total_hands" ->
            {<<analyzers[i].total_cards, analyzers[i].hand_size>>}
      [] op = "analyze_hands" ->
            {<<analyzers[i].total_cards, analyzers[i].hand_size>>}
            \cup UNION {partition_C_calls(o, i, FALSE) : o \in PartitionOps}
            \cup straights_C_calls(analyzers[i], FALSE)
            \cup flushes_C_calls(analyzers[i], FALSE)
            \cup straight_flushes_C_calls(analyzers[i])

raises(op, i, exclusive) ==
    \/ \E c \in C_calls(op, i, exclusive) : CRaises(c[1], c[2])
    \/ /\ op = "analyze_hands"
       /\ \E j \in 1..9 : probability_raises(hand_counts(i)[j].count,
                                             count_total_hands(i))

\* the value a counter call returns
counter_value(op, i, exclusive) ==
    CASE op \in PartitionOps -> count_by_partitions(op, i, exclusive)
      [] op = "count_straights" -> count_straights(i, exclusive)
      [] op = "count_flushes" -> count_flushes(i, exclusive)
      [] op = "count_straight_flushes" -> count_straight_flushes(i, exclusive)

(***************************************************************************)
(* The state machine.                                                      *)
(***************************************************************************)
NoCall ==
    [op |-> "none", self |-> 0, args |-> << >>, exclusive |-> FALSE,
     ret |-> 0, results |-> << >>, raised |-> FALSE]

Init ==
    /\ analyzers = << >>
    /\ cache = << >>
    /\ last = NoCall

\* DeckAnalyzer(num_ranks, num_suits, num_copies, hand_size) for a deck of at
\* most max_cards cards: a new object on the heap
New(max_cards) ==
    \E num_ranks \in 0..MaxRanks, num_suits \in 1..MaxSuits,
       num_copies \in 1..MaxCopies :
      /\ num_ranks * num_suits * num_copies <= max_cards
      /\ \E hand_size \in 0..(num_ranks * num_suits * num_copies + MaxExcess) :
           analyzers' = Append(analyzers,
               DeckAnalyzer(num_ranks, num_suits, num_copies, hand_size))
      /\ UNCHANGED <<cache, last>>

Construct == analyzers = << >> /\ New(MaxCards)

\* a call of one of the six partition counters
PartitionCall(op) ==
    \E i \in DOMAIN analyzers, exclusive \in BOOLEAN :
      /\ last' = [NoCall EXCEPT !.op = op, !.self = i, !.exclusive = exclusive,
                     !.ret = count_by_partitions(op, i, exclusive),
                     !.raised = raises(op, i, exclusive)]
      /\ cache' = IF partition_guard(op, analyzers[i]) THEN cache
                  ELSE CacheAfter(i, analyzers[i].hand_size)
      /\ UNCHANGED analyzers

\* a call of a counter that uses no partitions
FormulaCall(op) ==
    \E i \in DOMAIN analyzers, exclusive \in BOOLEAN :
      /\ last' = [NoCall EXCEPT !.op = op, !.self = i, !.exclusive = exclusive,
                     !.ret = counter_value(op, i, exclusive),
                     !.raised = raises(op, i, exclusive)]
      /\ UNCHANGED <<analyzers, cache>>

CountPairs == PartitionCall("count_pairs")

CountTwoPair == PartitionCall("count_two_pair")

CountThreeOfKind == PartitionCall("count_three_of_kind")

CountFullHouse == PartitionCall("count_full_house")

CountFourOfKind == PartitionCall("count_four_of_kind")

CountFiveOfKind == PartitionCall("count_five_of_kind")

CountStraights == FormulaCall("count_straights")

CountFlushes == FormulaCall("count_flushes")

CountStraightFlushes == FormulaCall("count_straight_flushes")

CountTotalHands ==
    \E i \in DOMAIN analyzers :
      /\ last' = [NoCall EXCEPT !.op = "count_total_hands", !.self = i,
                     !.ret = count_total_hands(i),
                     !.raised = raises("count_total_hands", i, FALSE)]
      /\ UNCHANGED <<analyzers, cache>>

AnalyzeHands ==
    \E i \in DOMAIN analyzers :
      /\ last' = [NoCall EXCEPT !.op = "analyze_hands", !.self = i,
                     !.results = analyze_hands(i),
                     !.raised = raises("analyze_hands", i, FALSE)]
      \* count_pairs, the first counter called, has no early return
      /\ cache' = CacheAfter(i, analyzers[i].hand_size)
      /\ UNCHANGED analyzers

Calls ==
    \/ CountPairs
    \/ CountTwoPair
    \/ CountThreeOfKind
    \/ CountFullHouse
    \/ CountStraights
    \/ CountFlushes
    \/ CountFourOfKind
    \/ CountStraightFlushes
    \/ CountFiveOfKind
    \/ CountTotalHands
    \/ AnalyzeHands

Next == Construct \/ Calls

Spec == Init /\ [][Next]_vars

(***************************************************************************)
(* The specification with twin analyzers: a second analyzer built with the *)
(* arguments of the first, and calls whose return value nobody looks at,   *)
(* so that `last' holds the latest call that was looked at.                *)
(***************************************************************************)
ConstructFirst == analyzers = << >> /\ New(PairMaxCards)

ConstructTwin ==
    /\ Len(analyzers) = 1
    /\ analyzers' = Append(analyzers,
           DeckAnalyzer(analyzers[1].num_ranks, analyzers[1].num_suits,
                        analyzers[1].num_copies, analyzers[1].hand_size))
    /\ UNCHANGED <<cache, last>>

\* a counter call whose return value is dropped: what stays of it is the
\* memo entry, when the counter got as far as generate_partitions
CallUnobserved ==
    \E i \in DOMAIN analyzers, op \in PartitionOps :
      /\ ~partition_guard(op, analyzers[i])
      /\ cache' = CacheAfter(i, analyzers[i].hand_size)
      /\ UNCHANGED <<analyzers, last>>

NextPair == ConstructFirst \/ ConstructTwin \/ Calls \/ CallUnobserved

PairSpec == Init /\ [][NextPair]_vars

(***************************************************************************)
(* The specification of the decks that main() and the tests analyze:       *)
(* standard (13 ranks, 4 suits), pinochle (6 ranks, 4 suits, 2 copies) and *)
(* short deck (9 ranks, 4 suits), each with hands of 5 and of 7 cards.     *)
(***************************************************************************)
Scenarios ==
    {<<13, 4, 1, 5>>, <<13, 4, 1, 7>>, <<6, 4, 2, 5>>, <<6, 4, 2, 7>>,
     <<9, 4, 1, 5>>, <<9, 4, 1, 7>>}

ConstructScenario ==
    /\ analyzers = << >>
    /\ \E a \in Scenarios :
         analyzers' = <<DeckAnalyzer(a[1], a[2], a[3], a[4])>>
    /\ UNCHANGED <<cache, last>>

NextScenario == ConstructScenario \/ Calls

ScenarioSpec == Init /\ [][NextScenario]_vars

(***************************************************************************)
(* The specification with two analyzers of different shapes: a second      *)
(* analyzer of any shape for the hand size of the first, so that both ask  *)
(* for the partitions of the same n, and the calls that reach              *)
(* generate_partitions: the six partition counters and analyze_hands.      *)
(***************************************************************************)
ConstructSmall == analyzers = << >> /\ New(MixMaxCards)

ConstructOther ==
    /\ Len(analyzers) = 1
    /\ \E num_ranks \in 0..MaxRanks, num_suits \in 1..MaxSuits,
          num_copies \in 1..MaxCopies :
         /\ num_ranks * num_suits * num_copies <= MixMaxCards
         /\ analyzers[1].hand_size
              <= num_ranks * num_suits * num_copies + MaxExcess
         /\ analyzers' = Append(analyzers,
                DeckAnalyzer(num_ranks, num_suits, num_copies,
                             analyzers[1].hand_size))
    /\ UNCHANGED <<cache, last>>

MemoCalls ==
    \/ CountPairs
    \/ CountTwoPair
    \/ CountThreeOfKind
    \/ CountFullHouse
    \/ CountFourOfKind
    \/ CountFiveOfKind
    \/ AnalyzeHands

NextMixed == ConstructSmall \/ ConstructOther \/ MemoCalls

MixedSpec == Init /\ [][NextMixed]_vars

(***************************************************************************)
(* The specification of C on its own: an analyzer and calls of C with      *)
(* arguments on both sides of its guard.                                   *)
(***************************************************************************)
CallC ==
    /\ \E i \in DOMAIN analyzers, n \in (0 - MaxNegative)..MaxChoose,
          k \in (0 - MaxNegative)..(MaxChoose + 1) :
         last' = [NoCall EXCEPT !.op = "C", !.self = i, !.args = <<n, k>>,
                    !.ret = IF CRaises(n, k) THEN 0 ELSE C(n, k),
                    !.raised = CRaises(n, k)]
    /\ UNCHANGED <<analyzers, cache>>

NextBinomial == ConstructSmall \/ CallC

BinomialSpec == Init /\ [][NextBinomial]_vars

\* the small decks and the decks of main() together
NextDecks == Construct \/ ConstructScenario \/ Calls

DecksSpec == Init /\ [][NextDecks]_vars

(***************************************************************************)
(* The specification of count_ways_for_partition called on its own: an     *)
(* analyzer of any shape, and any descending sequence of positive integers *)
(* as the partition.                                                       *)
(***************************************************************************)
IsDescending(s) == \A j \in 1..(Len(s) - 1) : s[j] >= s[j + 1]

PartitionArgs ==
    {p \in UNION {[1..l -> 1..MaxPart] : l \in 0..MaxParts} : IsDescending(p)}

CountWaysForPartition ==
    \E i \in DOMAIN analyzers, partition \in PartitionArgs :
      /\ last' = [NoCall EXCEPT
                     !.op = "count_ways_for_partition", !.self = i,
                     !.args = partition,
                     !.ret = count_ways_for_partition(analyzers[i], partition),
                     !.raised = \E c \in count_ways_C_calls(analyzers[i],
                                                            partition) :
                                   CRaises(c[1], c[2])]
      /\ UNCHANGED <<analyzers, cache>>

NextWays == ConstructFirst \/ CountWaysForPartition

WaysSpec == Init /\ [][NextWays]_vars

(***************************************************************************)
(* The specification of generate_partitions called on its own, with n      *)
(* alone or with max_val and max_len given as well.  functools.cache keys  *)
(* the entry by the arguments as passed, so generate_partitions(n) and     *)
(* generate_partitions(n, max_val, max_len) have different keys.  The      *)
(* exploration stops at one entry in the memo table: a first call, then    *)
(* repeats of it.                                                          *)
(***************************************************************************)
GenerateArgs == UNION {[1..l -> 0..MaxArg] : l \in 1..3}

ArgsKey(i, args) == <<i>> \o args

\* if max_val is None: max_val = min(n, self.cards_per_rank)
max_val_of(self, args) ==
    IF Len(args) >= 2 THEN args[2] ELSE Min(args[1], self.cards_per_rank)

\* if max_len is None: max_len = min(n, self.num_ranks)
max_len_of(self, args) ==
    IF Len(args) >= 3 THEN args[3] ELSE Min(args[1], self.num_ranks)

generate_partitions_args_body(self, args) ==
    partition_helper(args[1], max_val_of(self, args), max_len_of(self, args))

GeneratePartitions ==
    \E i \in DOMAIN analyzers, args \in GenerateArgs :
      /\ cache = << >> \/ ArgsKey(i, args) \in DOMAIN cache
      /\ last' = [NoCall EXCEPT
                     !.op = "generate_partitions", !.self = i, !.args = args,
                     !.results =
                        IF ArgsKey(i, args) \in DOMAIN cache
                        THEN cache[ArgsKey(i, args)]
                        ELSE generate_partitions_args_body(analyzers[i], args)]
      /\ cache' =
            IF ArgsKey(i, args) \in DOMAIN cache THEN cache
            ELSE cache @@ (ArgsKey(i, args) :>
                   CachedResult(generate_partitions_args_body(analyzers[i],
                                                              args)))
      /\ UNCHANGED analyzers

NextPartitions == ConstructFirst \/ GeneratePartitions

PartitionsSpec == Init /\ [][NextPartitions]_vars

(***************************************************************************)
(* What the categories mean, by enumeration of the hands: the reference    *)
(* the counters are compared with.  A card is <<rank, suit, copy>>; a hand *)
(* is a set of hand_size cards of the deck.                                *)
(***************************************************************************)
Deck(self) ==
    (1..self.num_ranks) \X (1..self.num_suits) \X (1..self.num_copies)

IsHand(self, hand) == Cardinality(hand) = self.hand_size

Hands(self) == {hand \in SUBSET Deck(self) : IsHand(self, hand)}

RanksOf(cards) == {c[1] : c \in cards}

OfSuit(cards, suit) == {c \in cards : c[2] = suit}

OfRank(cards, rank) == {c \in cards : c[1] = rank}

\* five consecutive ranks; the highest rank with the four lowest is the
\* ace-low run
Runs(self) ==
    IF self.num_ranks < 5 THEN {}
    ELSE {r..(r + 4) : r \in 1..(self.num_ranks - 4)}
         \cup {{self.num_ranks, 1, 2, 3, 4}}

HoldsStraight(self, hand) ==
    \E run \in Runs(self) : run \subseteq RanksOf(hand)

HoldsFlush(self, hand) ==
    \E suit \in 1..self.num_suits : Cardinality(OfSuit(hand, suit)) >= 5

HoldsStraightFlush(self, hand) ==
    \E suit \in 1..self.num_suits, run \in Runs(self) :
        run \subseteq RanksOf(OfSuit(hand, suit))

\* the ranks the hand holds at least n cards of
RanksWith(self, hand, n) ==
    {r \in 1..self.num_ranks : Cardinality(OfRank(hand, r)) >= n}

Holds(op, self, hand) ==
    CASE op = "count_pairs" -> RanksWith(self, hand, 2) # {}
      [] op = "count_two_pair" -> Cardinality(RanksWith(self, hand, 2)) >= 2
      [] op = "count_three_of_kind" -> RanksWith(self, hand, 3) # {}
      [] op = "count_full_house" ->
            /\ RanksWith(self, hand, 3) # {}
            /\ Cardinality(RanksWith(self, hand, 2)) >= 2
      [] op = "count_four_of_kind" -> RanksWith(self, hand, 4) # {}
      [] op = "count_five_of_kind" -> RanksWith(self, hand, 5) # {}
      [] op = "count_straights" -> HoldsStraight(self, hand)
      [] op = "count_flushes" -> HoldsFlush(self, hand)
      [] op = "count_straight_flushes" -> HoldsStraightFlush(self, hand)

\* the multiset of the hand's per-rank card counts, ranks with no card left
\* out, is the partition
HasProfile(self, hand, partition) ==
    \A v \in (PartValues(partition)
              \cup {Cardinality(OfRank(hand, r)) : r \in 1..self.num_ranks})
             \ {0} :
      Cardinality({r \in 1..self.num_ranks : Cardinality(OfRank(hand, r)) = v})
      = value_counts(partition, v)

\* the sequences of positive integers that sum to n, one for each way to cut
\* 1..n: cuts are the places where a term ends before the last
RECURSIVE CompositionOf(_, _, _)
CompositionOf(cuts, from, n) ==
    IF cuts = {} THEN <<n - from>>
    ELSE LET c == CHOOSE x \in cuts : \A y \in cuts : x <= y
         IN  <<c - from>> \o CompositionOf(cuts \ {c}, c, n)

Compositions(n) ==
    IF n = 0 THEN {<< >>}
    ELSE {CompositionOf(cuts, 0, n) : cuts \in SUBSET (1..(n - 1))}

\* the non-increasing sequences of positive integers that sum to n, with
\* every term at most max_val and at most max_len terms
BoundedPartitions(n, max_val, max_len) ==
    {p \in Compositions(n) :
       /\ IsDescending(p)
       /\ \A j \in 1..Len(p) : p[j] <= max_val
       /\ Len(p) <= max_len}

\* some hand of the shape is in the category
Possible(op, self) ==
    \E hand \in SUBSET Deck(self) : IsHand(self, hand) /\ Holds(op, self, hand)

\* the counter behind each entry of analyze_hands, in the order of the list
AnalyzeOps ==
    <<"count_pairs", "count_two_pair", "count_three_of_kind",
      "count_full_house", "count_straights", "count_flushes",
      "count_four_of_kind", "count_straight_flushes", "count_five_of_kind">>

\* the analyzer the last call was made on
LastSelf == analyzers[last.self]

(***************************************************************************)
(* C1.  For every deck shape and every hand_size with                      *)
(* 0 <= hand_size <= total_cards, the ways of the partitions that          *)
(* generate_partitions(hand_size) returns add up to count_total_hands():   *)
(* the partitions tile the hand space.                                     *)
(***************************************************************************)
PartitionsTileHands ==
    \A i \in DOMAIN analyzers :
      LET self == analyzers[i]
          partitions == generate_partitions(i, self.hand_size)
      IN  self.hand_size <= self.total_cards =>
            SumSeq([j \in 1..Len(partitions) |->
                      count_ways_for_partition(self, partitions[j])])
            = count_total_hands(i)

\* a 5-card hand space of several rank patterns, one of them with two ranks
\* that share a count, its partitions generated by a counter call
PartitionsTileHandsWitness ==
    \E k \in DOMAIN cache :
      /\ analyzers[k[1]].hand_size = 5
      /\ k[2] = 5
      /\ analyzers[k[1]].total_cards >= 5
      /\ Len(cache[k]) >= 3
      /\ <<2, 2, 1>> \in {cache[k][j] : j \in 1..Len(cache[k])}
      /\ count_total_hands(k[1]) > 1

(***************************************************************************)
(* C2.  Every count analyze_hands() reports is a non-negative integer that *)
(* is at most count_total_hands().                                         *)
(***************************************************************************)
AnalyzeCountsWithinTotal ==
    last.op = "analyze_hands" =>
      \A j \in 1..Len(last.results) :
        /\ last.results[j].count >= 0
        /\ last.results[j].count <= count_total_hands(last.self)

(***************************************************************************)
(* C3.  With num_ranks >= 5 and 5 <= hand_size <= total_cards,             *)
(* count_straights(exclusive=False) is the number of hands that hold a     *)
(* card of each of five consecutive ranks (ace-low run included), each     *)
(* hand counted once.                                                      *)
(***************************************************************************)
StraightsCountHands ==
    (/\ last.op = "count_straights"
     /\ ~last.exclusive
     /\ LastSelf.num_ranks >= 5
     /\ LastSelf.hand_size >= 5
     /\ LastSelf.hand_size <= LastSelf.total_cards)
    => last.ret = Cardinality({hand \in Hands(LastSelf) :
                                 HoldsStraight(LastSelf, hand)})

(***************************************************************************)
(* C4.  With cards_per_suit >= 5 and 5 <= hand_size <= total_cards,        *)
(* count_flushes(exclusive=False) is the number of hands that hold at      *)
(* least 5 cards of one suit, each hand counted once.                      *)
(***************************************************************************)
FlushesCountHands ==
    (/\ last.op = "count_flushes"
     /\ ~last.exclusive
     /\ LastSelf.cards_per_suit >= 5
     /\ LastSelf.hand_size >= 5
     /\ LastSelf.hand_size <= LastSelf.total_cards)
    => last.ret = Cardinality({hand \in Hands(LastSelf) :
                                 HoldsFlush(LastSelf, hand)})

(***************************************************************************)
(* C5.  With num_ranks >= 5 and 5 <= hand_size <= total_cards,             *)
(* count_straight_flushes() is the number of hands that hold, within one   *)
(* suit, a card of each of five consecutive ranks (ace-low run included),  *)
(* each hand counted once.                                                 *)
(***************************************************************************)
StraightFlushesCountHands ==
    (/\ last.op = "count_straight_flushes"
     /\ LastSelf.num_ranks >= 5
     /\ LastSelf.hand_size >= 5
     /\ LastSelf.hand_size <= LastSelf.total_cards)
    => last.ret = Cardinality({hand \in Hands(LastSelf) :
                                 HoldsStraightFlush(LastSelf, hand)})

(***************************************************************************)
(* C6.  A DeckAnalyzer whose hand_size exceeds total_cards is rejected at  *)
(* construction: no analyzer with hand_size > total_cards ever exists.     *)
(***************************************************************************)
NoAnalyzerLargerThanDeck ==
    \A i \in DOMAIN analyzers :
      analyzers[i].hand_size <= analyzers[i].total_cards

(***************************************************************************)
(* C7.  For every shape with num_ranks >= 0, num_suits >= 1,               *)
(* num_copies >= 1 and hand_size >= 0, no count_* method (in either mode), *)
(* count_total_hands or analyze_hands raises, and a category no hand of    *)
(* the shape is in yields 0.                                               *)
(***************************************************************************)
NoCallRaises ==
    /\ ~last.raised
    /\ last.op \in CounterOps =>
         (~Possible(last.op, LastSelf) => last.ret = 0)
    /\ last.op = "analyze_hands" =>
         \A j \in 1..Len(last.results) :
           ~Possible(AnalyzeOps[j], LastSelf) => last.results[j].count = 0

\* a counter called in exclusive mode on a shape no hand of which is in its
\* category, past the counter's own early return, with calls of C made
NoCallRaisesWitness ==
    /\ last.op = "count_full_house"
    /\ last.exclusive
    /\ ~last.raised
    /\ ~full_house_guard(LastSelf)
    /\ ~Possible("count_full_house", LastSelf)
    /\ LastSelf.hand_size <= LastSelf.total_cards
    /\ \E j \in 1..Len(cache[CacheKey(last.self, LastSelf.hand_size)]) :
         count_ways_C_calls(LastSelf,
             cache[CacheKey(last.self, LastSelf.hand_size)][j]) # {}

(***************************************************************************)
(* C8.  For every deck shape and hand size,                                *)
(* count_straights(True) + count_straight_flushes() =                      *)
(* count_straights(False), and count_flushes(True) +                       *)
(* count_straight_flushes() = count_flushes(False).                        *)
(***************************************************************************)
ExclusiveRemovesStraightFlushes ==
    /\ (last.op = "count_straights" /\ last.exclusive) =>
         last.ret + count_straight_flushes(last.self, FALSE)
         = count_straights(last.self, FALSE)
    /\ (last.op = "count_flushes" /\ last.exclusive) =>
         last.ret + count_straight_flushes(last.self, FALSE)
         = count_flushes(last.self, FALSE)

\* an exclusive straight count of a 5-card hand that straight flushes were
\* taken out of
ExclusiveRemovesStraightFlushesWitness ==
    /\ last.op = "count_straights"
    /\ last.exclusive
    /\ LastSelf.hand_size = 5
    /\ count_straight_flushes(last.self, FALSE) > 0
    /\ last.ret > 0

(***************************************************************************)
(* C9.  For each of the nine categories X and every deck shape and hand    *)
(* size, count_X(exclusive=True) <= count_X(exclusive=False).              *)
(***************************************************************************)
ExclusiveAtMostInclusive ==
    (last.op \in CounterOps /\ last.exclusive) =>
      last.ret <= counter_value(last.op, last.self, FALSE)

\* an exclusive pair count that left the two-pair hands out
ExclusiveAtMostInclusiveWitness ==
    /\ last.op = "count_pairs"
    /\ last.exclusive
    /\ last.ret > 0
    /\ last.ret < count_pairs(last.self, FALSE)

(***************************************************************************)
(* C10.  Every counter is deterministic: the same count_* method with the  *)
(* same exclusive flag, called twice on one analyzer or once on each of    *)
(* two analyzers built with identical arguments, returns identical values, *)
(* whatever other counter calls happened in between.  `last' is the        *)
(* previous call that was looked at and last' the next one.                *)
(***************************************************************************)
IsCall(call) ==
    call.op \in CounterOps \cup {"count_total_hands", "analyze_hands"}

DeterministicCalls ==
    [][(/\ IsCall(last)
        /\ IsCall(last')
        /\ last'.op = last.op
        /\ last'.exclusive = last.exclusive
        /\ analyzers'[last'.self] = analyzers[last.self])
       => (last'.ret = last.ret /\ last'.results = last.results)]_vars

\* a partition counter has returned a non-zero count on the second of two
\* twin analyzers, after partition counters ran on both
DeterministicCallsWitness ==
    /\ Len(analyzers) = 2
    /\ analyzers[1] = analyzers[2]
    /\ CacheKey(1, analyzers[1].hand_size) \in DOMAIN cache
    /\ CacheKey(2, analyzers[2].hand_size) \in DOMAIN cache
    /\ last.op = "count_two_pair"
    /\ last.self = 2
    /\ last.ret > 0

(***************************************************************************)
(* C11.  For every shape with num_ranks < 5 and every hand size,           *)
(* count_straights and count_straight_flushes return 0 in both inclusive   *)
(* and exclusive mode, without raising.                                    *)
(***************************************************************************)
NoStraightBelowFiveRanks ==
    (/\ last.op \in {"count_straights", "count_straight_flushes"}
     /\ LastSelf.num_ranks < 5)
    => (last.ret = 0 /\ ~last.raised)

\* an exclusive straight count on a 4-rank deck, for a hand of 5 cards or
\* more that the deck can deal
NoStraightBelowFiveRanksWitness ==
    /\ last.op = "count_straights"
    /\ last.exclusive
    /\ LastSelf.num_ranks = 4
    /\ LastSelf.hand_size >= 5
    /\ LastSelf.hand_size <= LastSelf.total_cards
    /\ last.ret = 0

(***************************************************************************)
(* C12.  For every deck shape and every descending sequence p of positive  *)
(* integers, count_ways_for_partition(p) is the number of subsets of the   *)
(* deck whose multiset of per-rank card counts (ranks with no card left    *)
(* out) is exactly p; it is 0 when p has more parts than num_ranks or a    *)
(* part larger than cards_per_rank; ranks that share a count are not       *)
(* counted once per permutation.                                           *)
(***************************************************************************)
WaysCountHandsOfProfile ==
    last.op = "count_ways_for_partition" =>
      /\ last.ret = Cardinality({hand \in SUBSET Deck(LastSelf) :
                                   HasProfile(LastSelf, hand, last.args)})
      /\ (\/ Len(last.args) > LastSelf.num_ranks
          \/ \E j \in 1..Len(last.args) :
                last.args[j] > LastSelf.cards_per_rank)
         => last.ret = 0

\* a feasible partition with two ranks of the same count and a third rank
WaysCountHandsOfProfileWitness ==
    /\ last.op = "count_ways_for_partition"
    /\ last.args = <<2, 2, 1>>
    /\ LastSelf.num_ranks >= 3
    /\ last.ret > 1

ExclusiveTwoPairRemovesFullHouse ==
    (last.op = "count_two_pair" /\ last.exclusive) =>
      last.ret = count_two_pair(last.self, FALSE)
                 - count_full_house(last.self, FALSE)

\* an exclusive two-pair count that full houses were taken out of and that
\* two-pair hands stay in
ExclusiveTwoPairRemovesFullHouseWitness ==
    /\ last.op = "count_two_pair"
    /\ last.exclusive
    /\ count_full_house(last.self, FALSE) > 0
    /\ last.ret > 0

(***************************************************************************)
(* C17.  Whenever num_ranks < hand_size <= total_cards, every hand holds a *)
(* pair: count_pairs() = count_total_hands().                              *)
(***************************************************************************)
MoreCardsThanRanksAllPairs ==
    (/\ last.op = "count_pairs"
     /\ ~last.exclusive
     /\ LastSelf.num_ranks < LastSelf.hand_size
     /\ LastSelf.hand_size <= LastSelf.total_cards)
    => last.ret = count_total_hands(last.self)

\* an inclusive pair count of hands of more cards than ranks, on a deck with
\* several such hands, some with three or more cards of a rank
MoreCardsThanRanksAllPairsWitness ==
    /\ last.op = "count_pairs"
    /\ ~last.exclusive
    /\ LastSelf.num_ranks < LastSelf.hand_size
    /\ LastSelf.hand_size <= LastSelf.total_cards
    /\ LastSelf.num_ranks >= 2
    /\ LastSelf.cards_per_rank >= 3
    /\ last.ret > 1

\* the exclusive call of op on self adds the ways of the partition to its count
CountedExclusively(op, self, partition) ==
    /\ ~partition_guard(op, self)
    /\ partition_counted(op, partition, TRUE)
    /\ count_ways_for_partition(self, partition) > 0

(***************************************************************************)
(* C18.  Exclusive counting gives mutually exclusive rank-pattern          *)
(* rankings for every hand size: no rank-multiplicity profile is counted   *)
(* by more than one of count_pairs(True), count_two_pair(True),            *)
(* count_three_of_kind(True), count_four_of_kind(True),                    *)
(* count_full_house(True) and count_five_of_kind(True).                    *)
(***************************************************************************)
ExclusiveRankPatternsDisjoint ==
    (last.op \in PartitionOps /\ last.exclusive /\ ~partition_guard(last.op, LastSelf))
    => LET partitions == cache[CacheKey(last.self, LastSelf.hand_size)]
       IN  \A j \in 1..Len(partitions) :
             CountedExclusively(last.op, LastSelf, partitions[j])
             => \A other \in PartitionOps \ {last.op} :
                  ~CountedExclusively(other, LastSelf, partitions[j])

(***************************************************************************)
(* C19.  For the shape (13 ranks, 4 suits, 1 copy, hand_size 7):           *)
(* count_total_hands() = 133784560 and count_straight_flushes() = 41584.   *)
(***************************************************************************)
StandardSevenCardCounts ==
    /\ (/\ last.op = "count_total_hands"
         /\ LastSelf = DeckAnalyzer(13, 4, 1, 7))
        => last.ret = 133784560
    /\ (/\ last.op = "count_straight_flushes"
         /\ LastSelf = DeckAnalyzer(13, 4, 1, 7))
        => last.ret = 41584

\* the straight flushes of 7-card hands counted on the standard deck
StandardSevenCardCountsWitness ==
    /\ last.op = "count_straight_flushes"
    /\ LastSelf = DeckAnalyzer(13, 4, 1, 7)
    /\ ~last.raised
    /\ last.ret = 41584

(***************************************************************************)
(* C20.  For the shape (13 ranks, 4 suits, 1 copy, hand_size 5):           *)
(* count_total_hands() = 2598960, count_straight_flushes() = 40,           *)
(* count_four_of_kind() = 624 and count_full_house() = 3744.               *)
(***************************************************************************)
StandardFiveCardCounts ==
    (/\ last.op \in {"count_total_hands", "count_straight_flushes",
                      "count_four_of_kind", "count_full_house"}
     /\ ~last.exclusive
     /\ LastSelf = DeckAnalyzer(13, 4, 1, 5))
    => last.ret = CASE last.op = "count_total_hands" -> 2598960
                    [] last.op = "count_straight_flushes" -> 40
                    [] last.op = "count_four_of_kind" -> 624
                    [] last.op = "count_full_house" -> 3744

\* the full houses of 5-card hands counted on the standard deck
StandardFiveCardCountsWitness ==
    /\ last.op = "count_full_house"
    /\ ~last.exclusive
    /\ LastSelf = DeckAnalyzer(13, 4, 1, 5)
    /\ ~last.raised
    /\ last.ret = 3744

(***************************************************************************)
(* C21.  For the short deck (9 ranks, 4 suits, 1 copy, hand_size 5):       *)
(* count_total_hands() = 376992 and count_straight_flushes() = 24.         *)
(***************************************************************************)
ShortDeckFiveCardCounts ==
    /\ (/\ last.op = "count_total_hands"
         /\ LastSelf = DeckAnalyzer(9, 4, 1, 5))
        => last.ret = 376992
    /\ (/\ last.op = "count_straight_flushes"
         /\ LastSelf = DeckAnalyzer(9, 4, 1, 5))
        => last.ret = 24

\* the straight flushes of 5-card hands counted on the short deck
ShortDeckFiveCardCountsWitness ==
    /\ last.op = "count_straight_flushes"
    /\ LastSelf = DeckAnalyzer(9, 4, 1, 5)
    /\ ~last.raised
    /\ last.ret = 24

(***************************************************************************)
(* C22.  For the duplicate-card deck (6 ranks, 4 suits, 2 copies,          *)
(* hand_size 5) count_five_of_kind() = 336, and for every deck             *)
(* count_five_of_kind() is non-zero only when cards_per_rank >= 5 and      *)
(* hand_size >= 5.                                                         *)
(***************************************************************************)
FiveOfKindNeedsFiveCopies ==
    last.op = "count_five_of_kind" =>
      /\ LastSelf = DeckAnalyzer(6, 4, 2, 5) => last.ret = 336
      /\ last.ret # 0 =>
            (LastSelf.cards_per_rank >= 5 /\ LastSelf.hand_size >= 5)

\* five of a kind counted on the duplicate-card deck
FiveOfKindNeedsFiveCopiesWitness ==
    /\ last.op = "count_five_of_kind"
    /\ LastSelf = DeckAnalyzer(6, 4, 2, 5)
    /\ ~last.raised
    /\ last.ret = 336

(***************************************************************************)
(* C23.  The partition memoization is transparent and write-once: across   *)
(* any sequence of counter calls on any number of analyzers (analyzers     *)
(* with the same hand_size but different num_ranks or cards_per_rank       *)
(* included), every generate_partitions call returns exactly the           *)
(* partitions an uncached recomputation for that analyzer's own shape      *)
(* would return, and a cache entry, once populated for a key, is never     *)
(* replaced or changed by later calls.                                     *)
(***************************************************************************)
MemoTransparentWriteOnce ==
    [][/\ \A k \in DOMAIN cache :
            k \in DOMAIN cache' /\ cache'[k] = cache[k]
       /\ \A k \in DOMAIN cache' :
            cache'[k] = generate_partitions_body(analyzers'[k[1]], k[2])
       /\ last'.op \in PartitionOps =>
            last'.ret =
              IF partition_guard(last'.op, analyzers'[last'.self]) THEN 0
              ELSE sum_counted(last'.op, analyzers'[last'.self],
                     generate_partitions_body(analyzers'[last'.self],
                         analyzers'[last'.self].hand_size),
                     last'.exclusive)]_vars

\* two analyzers of different shapes and the same hand size, each with its
\* own entry for that hand size, the entries different, after a counter call
\* on the second that returned a non-zero count
MemoTransparentWriteOnceWitness ==
    /\ Len(analyzers) = 2
    /\ analyzers[1].hand_size = analyzers[2].hand_size
    /\ CacheKey(1, analyzers[1].hand_size) \in DOMAIN cache
    /\ CacheKey(2, analyzers[2].hand_size) \in DOMAIN cache
    /\ cache[CacheKey(1, analyzers[1].hand_size)]
         # cache[CacheKey(2, analyzers[2].hand_size)]
    /\ last.op \in PartitionOps
    /\ last.self = 2
    /\ last.ret > 0

(***************************************************************************)
(* C24.  The deck shape of an analyzer is read-only after construction:    *)
(* no call changes num_ranks, num_suits, num_copies, hand_size or a        *)
(* derived field, and after every call cards_per_rank is still             *)
(* num_suits * num_copies, cards_per_suit is still num_ranks * num_copies  *)
(* and total_cards is still num_ranks * num_suits * num_copies.            *)
(***************************************************************************)
DeckShapeReadOnly ==
    [][/\ \A i \in DOMAIN analyzers :
            i \in DOMAIN analyzers' /\ analyzers'[i] = analyzers[i]
       /\ \A i \in DOMAIN analyzers' :
            /\ analyzers'[i].cards_per_rank
                 = analyzers'[i].num_suits * analyzers'[i].num_copies
            /\ analyzers'[i].cards_per_suit
                 = analyzers'[i].num_ranks * analyzers'[i].num_copies
            /\ analyzers'[i].total_cards
                 = analyzers'[i].num_ranks * analyzers'[i].num_suits
                    * analyzers'[i].num_copies]_vars

\* analyze_hands has run, and filled the memo table, on an analyzer whose
\* three derived fields are three different products
DeckShapeReadOnlyWitness ==
    /\ last.op = "analyze_hands"
    /\ cache # << >>
    /\ LastSelf.num_ranks = 1
    /\ LastSelf.num_suits = 3
    /\ LastSelf.num_copies = 2
    /\ LastSelf.hand_size = 3

(***************************************************************************)
(* C25.  C(n, k) returns 0, without raising, whenever k < 0 or k > n, a    *)
(* negative n included; for 0 <= k <= n it returns the exact binomial      *)
(* coefficient: C(n, 0) = C(n, n) = 1 and C(n, k) = C(n-1, k-1) + C(n-1, k)*)
(* in between, the number of k-element subsets of an n-element set.        *)
(***************************************************************************)
BinomialExact ==
    last.op = "C" =>
      LET n == last.args[1]
          k == last.args[2]
      IN  /\ ~last.raised
          /\ (k < 0 \/ k > n) => last.ret = 0
          /\ (0 <= k /\ k <= n) =>
                /\ (k = 0 \/ k = n) => last.ret = 1
                /\ (0 < k /\ k < n) =>
                      last.ret = C(n - 1, k - 1) + C(n - 1, k)
                /\ n <= 6 =>
                      last.ret = Cardinality({S \in SUBSET (1..n) :
                                                Cardinality(S) = k})

\* C(6, 3) has run, past the guard, and returned 20
BinomialExactWitness ==
    /\ last.op = "C"
    /\ last.args = <<6, 3>>
    /\ last.ret = 20
    /\ ~last.raised

(***************************************************************************)
(* C26.  analyze_hands() returns exactly nine entries, one per hand type,  *)
(* each with the count its inclusive counter returns, and never divides by *)
(* zero: with count_total_hands() = 0 every probability is 0, and          *)
(* otherwise each probability is count / total_hands.                      *)
(***************************************************************************)
AnalyzeHandsNineEntries ==
    last.op = "analyze_hands" =>
      /\ ~last.raised
      /\ Len(last.results) = 9
      /\ Cardinality({last.results[j].name : j \in 1..Len(last.results)}) = 9
      /\ \A j \in 1..Len(last.results) :
            /\ last.results[j].count
                 = counter_value(AnalyzeOps[j], last.self, FALSE)
            /\ last.results[j].prob[2] # 0
            /\ last.results[j].prob =
                 IF count_total_hands(last.self) = 0 THEN <<0, 1>>
                 ELSE <<last.results[j].count, count_total_hands(last.self)>>

\* analyze_hands has run on an analyzer of a deck with cards and with no
\* hand at all, and every probability is 0
AnalyzeHandsNineEntriesWitness ==
    /\ last.op = "analyze_hands"
    /\ LastSelf.total_cards > 0
    /\ count_total_hands(last.self) = 0
    /\ ~last.raised
    /\ \A j \in 1..Len(last.results) : last.results[j].prob = <<0, 1>>

(***************************************************************************)
(* C27.  The exclusive straight and flush counts are never negative: for   *)
(* every analyzer count_straight_flushes() is at most                      *)
(* count_straights(exclusive=False) and at most                            *)
(* count_flushes(exclusive=False).                                         *)
(***************************************************************************)
ExclusiveStraightsFlushesNonNegative ==
    last.op \in {"count_straights", "count_flushes"} =>
      /\ last.exclusive => last.ret >= 0
      /\ count_straight_flushes(last.self, FALSE)
           <= count_straights(last.self, FALSE)
      /\ count_straight_flushes(last.self, FALSE)
           <= count_flushes(last.self, FALSE)

(***************************************************************************)
(* C28.  When hand_size exceeds total_cards (a shape the constructor       *)
(* accepts), count_total_hands() is 0 and each of the nine counters        *)
(* returns 0, with exclusive False and with exclusive True.                *)
(***************************************************************************)
OversizeHandCountsNothing ==
    (/\ last.op \in CounterOps \cup {"count_total_hands"}
     /\ LastSelf.hand_size > LastSelf.total_cards)
    => /\ last.ret = 0
       /\ count_total_hands(last.self) = 0
       /\ \A op \in CounterOps, exclusive \in BOOLEAN :
            counter_value(op, last.self, exclusive) = 0

\* count_straight_flushes has run past its early return, into the case of
\* more than 5 cards, for a hand of more cards than the deck has
OversizeHandCountsNothingWitness ==
    /\ last.op = "count_straight_flushes"
    /\ ~straight_flushes_guard(LastSelf)
    /\ LastSelf.hand_size > 5
    /\ LastSelf.hand_size > LastSelf.total_cards
    /\ last.ret = 0

\* the hands of hand_size cards of hand_size different ranks:
\* C(num_ranks, hand_size) * cards_per_rank ** hand_size, which is 0 when
\* the hand has more cards than the deck has ranks
AllDistinctRanks(self) ==
    IF self.hand_size > self.num_ranks THEN 0
    ELSE C(self.num_ranks, self.hand_size)
           * Pow(self.cards_per_rank, self.hand_size)

(***************************************************************************)
(* C29.  For hand_size <= total_cards, count_pairs(exclusive=False) is     *)
(* count_total_hands() minus the hands whose cards all differ in rank,     *)
(* C(num_ranks, hand_size) * cards_per_rank ** hand_size.                  *)
(***************************************************************************)
PairsAreTheComplementOfDistinct ==
    (/\ last.op = "count_pairs"
     /\ ~last.exclusive
     /\ LastSelf.hand_size <= LastSelf.total_cards)
    => last.ret = count_total_hands(last.self) - AllDistinctRanks(LastSelf)

\* count_pairs() has run on a deck that has both hands with a pair and
\* hands of all different ranks
PairsAreTheComplementOfDistinctWitness ==
    /\ last.op = "count_pairs"
    /\ ~last.exclusive
    /\ LastSelf.hand_size >= 2
    /\ LastSelf.hand_size <= LastSelf.num_ranks
    /\ LastSelf.cards_per_rank >= 2
    /\ last.ret > 0
    /\ last.ret < count_total_hands(last.self)

(***************************************************************************)
(* C30.  With hand_size 5 and total_cards >= 5 the exclusive rank-pattern  *)
(* counts and the hands without a pair tile the hand space:                *)
(* (count_total_hands() - count_pairs(False)) + count_pairs(True)          *)
(* + count_two_pair(True) + count_three_of_kind(True)                      *)
(* + count_full_house(True) + count_four_of_kind(True)                     *)
(* + count_five_of_kind(True) = count_total_hands().                       *)
(***************************************************************************)
FiveCardExclusiveCountsTile ==
    (/\ last.op = "count_pairs"
     /\ last.exclusive
     /\ LastSelf.hand_size = 5
     /\ LastSelf.total_cards >= 5)
    => (count_total_hands(last.self) - count_pairs(last.self, FALSE))
         + last.ret
         + count_two_pair(last.self, TRUE)
         + count_three_of_kind(last.self, TRUE)
         + count_full_house(last.self, TRUE)
         + count_four_of_kind(last.self, TRUE)
         + count_five_of_kind(last.self, TRUE)
       = count_total_hands(last.self)

\* count_pairs(exclusive=True) has run for 5-card hands of a deck with hands
\* of one pair, hands of two pair and hands without a pair
FiveCardExclusiveCountsTileWitness ==
    /\ last.op = "count_pairs"
    /\ last.exclusive
    /\ LastSelf.hand_size = 5
    /\ LastSelf.total_cards >= 5
    /\ last.ret > 0
    /\ count_two_pair(last.self, TRUE) > 0
    /\ count_pairs(last.self, FALSE) < count_total_hands(last.self)

====
